---------------------------- MODULE Spec2Model ----------------------------
(***************************************************************************)
(* actix-rl: a counter-based rate limiter for actix-web.                   *)
(*                                                                         *)
(* The module models                                                       *)
(*   - MemStore (src/src/store/mem_store.rs): a HashMap of DateCount       *)
(*     records behind one tokio Mutex, with lazy fixed-window expiry;      *)
(*   - RedisStore (src/src/store/redis_store.rs): a pipeline of four       *)
(*     commands against a remote key-value service;                        *)
(*   - RateLimitService::call (src/src/middleware.rs): the per-request     *)
(*     decision pipeline, with the Controller's optional hooks and the     *)
(*     RateLimitByPass marker.                                             *)
(*                                                                         *)
(* Specifications:                                                         *)
(*   Spec      tasks calling incr / incr_by / del / clear on one MemStore  *)
(*   SpecPipe  requests passing the middleware, wrapped twice, MemStore    *)
(*   SpecRedis requests passing the middleware over a RedisStore           *)
(***************************************************************************)
EXTENDS Integers, Sequences, FiniteSets, TLC

(***************************************************************************)
(* Bounds of the model.                                                    *)
(***************************************************************************)
\* the clock runs from 0 to MaxTime
MaxTime == 3
\* the ttl the store is constructed with (MemStore::new(capacity, ttl))
TTL == 1
\* how many store operations the tasks of Spec invoke altogether
MaxOps == 4

\* RateLimitInner.max: the count above which a request is rejected
Max == 1
\* how many requests arrive altogether (SpecPipe, SpecRedis)
MaxReqs == 4
\* how many times the middleware is wrapped around the handler
Layers == 2

\* the tasks (Spec) or the requests in flight (SpecPipe, SpecRedis)
Procs == {"p1", "p2"}
\* the keys the callers use (tests::incr_del, tests::ttl)
Keys == {"John", "Meg"}
\* the amounts the callers pass to incr_by
Amounts == {1, 2}

\* the peer addresses of the requests ("none": peer_addr() is None)
Peers == {"127.0.0.1", "none"}
\* the paths of the requests (tests::test_do_rate_limit)
Paths == {"/", "/bypass"}

NoOwner == "none"
NoValue == [count |-> 0, create_date |-> -1, until |-> -1]

VARIABLES
    now,      \* the wall clock read by Utc::now()
    data,     \* MemStoreInner.data: HashMap<String, DateCount>
    mutex,    \* owner of the tokio Mutex around MemStoreInner
    pc,       \* position of each task in its store call
    op,       \* the store operation a task is executing
    key,      \* its key argument
    val,      \* its amount argument
    ret,      \* the value the call is about to return to the task
    t0,       \* history: the time the task invoked the call, kept when the
              \* key's record had expired by then (-1 otherwise)
    nops,     \* history: the number of calls invoked so far
    win,      \* history: per key, what the calls that returned in the key's
              \* current window have reported
    controller, \* RateLimitInner.controller: the hook slots
    peer,     \* per request: HttpRequest::peer_addr()
    path,     \* per request: HttpRequest::path()
    marker,   \* per request: a RateLimitByPass is in the request's extensions
    layer,    \* per request: which of the nested RateLimitService it is in
    resp,     \* per request: the response it got
    trace,    \* history: per request, the hooks and calls made for it
    pos,      \* history: per request, the position of its increment among
              \* the increments that returned in the window
    adv,      \* history: per key, the expiry advertised by the n rejections
              \* since the key's last allowed request
    advAt,    \* history: per request, the expiry advertised to its
              \* identifier that had passed when it arrived (NoAd if none)
    adds,     \* history: per task or request, how many times the store has
              \* added to a counter for it
    rdb,      \* the keys of the remote key-value service (RedisStore)
    cl,       \* the MemStore handles: which allocation each handle refers to
              \* (arc), the map of each allocation (heap), the run of the
              \* same operations through a single handle (single, ref), and
              \* history: the last two operations issued (prev, last)
    ns,       \* the RedisStores sharing the remote service: the prefix of
              \* each, and history: the increments each has made per logical
              \* key (own) and the count its last incr_by returned (got)
    fw,       \* history: the instants at which the store counted the
              \* requests that were passed to the wrapped service
    wide      \* a DateCount whose count keeps the 32 bits of u32, and
              \* history: the counts reported for it

storeVars == <<data, mutex>>
callVars == <<pc, op, key, val, ret, t0>>
pipeVars == <<controller, peer, path, marker, layer, resp, trace, pos, adv, advAt>>
vars == <<now, data, mutex, pc, op, key, val, ret, t0, nops, win,
          controller, peer, path, marker, layer, resp, trace, pos, adv, advAt,
          adds, rdb, cl, ns, fw, wide>>

(***************************************************************************)
(* DateCount and DateCountUntil (mem_store.rs)                             *)
(***************************************************************************)
\* impl Default for DateCount: create_date = Utc::now(), count = 0
DateCountDefault(instant) == [create_date |-> instant, count |-> 0]

\* an expiry that arrives one instant early
expired_at_inclusive(entry, ttl, instant) == entry.create_date + ttl <= instant

\* DateCount::expired_at
expired_at(entry, ttl, instant) == entry.create_date + ttl < instant

\* a snapshot whose expiry leaves the ttl out
DateCountUntil_without_ttl(entry, ttl) ==
    [count |-> entry.count, create_date |-> entry.create_date,
     until |-> entry.create_date]

\* the DateCountUntil built at the end of incr_by and in del
DateCountUntil(entry, ttl) ==
    [count |-> entry.count, create_date |-> entry.create_date,
     until |-> entry.create_date + ttl]

\* entry.count += val on a u32; the counts of this model stay far below
\* u32::MAX, where the sum is the mathematical one
AddU32(a, b) == a + b

\* HashMap::entry(key).or_default()
or_default(map, k, instant) ==
    IF k \in DOMAIN map THEN map
    ELSE [x \in DOMAIN map \cup {k} |->
            IF x = k THEN DateCountDefault(instant) ELSE map[x]]

\* HashMap::remove(&key)
remove(map, k) == [x \in DOMAIN map \ {k} |-> map[x]]

\* the empty HashMap
EmptyMap == [x \in {} |-> DateCountDefault(0)]

(***************************************************************************)
(* History of the returned values: win[k] describes the calls on k that    *)
(* returned since k's window began (a window ends with a del, a clear or a *)
(* returned value that carries another creation date).                     *)
(***************************************************************************)
NoWindows == [x \in {} |-> [create_date |-> 0, sum |-> 0, last |-> 0]]

\* the window history after incr_by(k, v) returned value r
Reported(w, k, v, r) ==
    [x \in DOMAIN w \cup {k} |->
        IF x # k THEN w[x]
        ELSE IF k \in DOMAIN w /\ w[k].create_date = r.create_date
             THEN [create_date |-> r.create_date,
                   sum |-> w[k].sum + v, last |-> r.count]
             ELSE [create_date |-> r.create_date,
                   sum |-> v, last |-> r.count]]

(***************************************************************************)
(* The state after MemStore::new and before any call.                      *)
(***************************************************************************)
\* the remote service holds no key
NoKeys == [x \in {} |-> [value |-> 0, exp |-> -1]]

NoResponse == [status |-> 0, until |-> -1, by |-> "none"]
NoAdvert == [x \in {} |-> [until |-> 0, n |-> 0]]
NoAd == [until |-> -1, n |-> 0]

\* Controller::new(): every slot is None
ControllerNew ==
    [fn_do_rate_limit |-> "none", fn_find_identifier |-> "none",
     fn_on_rate_limit_error |-> "none", fn_on_store_error |-> "none",
     fn_on_success |-> "none"]

InitPipe ==
    /\ peer = [p \in Procs |-> "none"]
    /\ path = [p \in Procs |-> "/"]
    /\ marker = [p \in Procs |-> FALSE]
    /\ layer = [p \in Procs |-> 1]
    /\ resp = [p \in Procs |-> NoResponse]
    /\ trace = [p \in Procs |-> <<>>]
    /\ pos = [p \in Procs |-> 0]
    /\ adv = NoAdvert
    /\ advAt = [p \in Procs |-> NoAd]

\* no RedisStore shares the remote service with another
NoStores == [prefix |-> <<>>, own |-> <<>>, got |-> <<>>]

\* a u32 as its two 16-bit halves
U32(hi, lo) == [hi |-> hi, lo |-> lo]

\* DateCount::default() for the wide counter (count: 0u32), and history: the
\* last two counts incr_by reported (n of them so far, at most 2 kept) and
\* whether a call has panicked
NoWide ==
    [count |-> U32(0, 0), prev |-> U32(0, 0), last |-> U32(0, 0), n |-> 0,
     panicked |-> FALSE]

\* no operation was issued yet
NoCall == [op |-> "none", key |-> "none", val |-> 0]

\* MemStore::new: one handle, "store", refers to the one allocation
NoClones ==
    [arc |-> [h \in {"store"} |-> 1], heap |-> <<EmptyMap>>,
     single |-> EmptyMap, out |-> NoValue, ref |-> NoValue, used |-> {},
     last |-> NoCall, prev |-> NoCall]

InitStore ==
    /\ cl = NoClones
    /\ ns = NoStores
    /\ fw = <<>>
    /\ wide = NoWide
    /\ now = 0
    /\ data = EmptyMap
    /\ mutex = NoOwner
    /\ pc = [p \in Procs |-> "idle"]
    /\ op = [p \in Procs |-> "none"]
    /\ key = [p \in Procs |-> "none"]
    /\ val = [p \in Procs |-> 0]
    /\ ret = [p \in Procs |-> NoValue]
    /\ t0 = [p \in Procs |-> -1]
    /\ nops = 0
    /\ win = NoWindows
    /\ adds = [p \in Procs |-> 0]
    /\ rdb = NoKeys

Init ==
    /\ InitStore
    /\ InitPipe
    /\ controller = ControllerNew

\* A response is handed to the client before anything else happens: what a
\* finished request leaves behind is history only, so no step of the others
\* is lost by taking Leave first.
NoneDone == \A p \in Procs : pc[p] # "done"

\* the clock advances
Tick ==
    /\ NoneDone
    /\ now < MaxTime
    /\ now' = now + 1
    /\ UNCHANGED pipeVars
    /\ UNCHANGED <<data, mutex, pc, op, key, val, ret, t0, nops, win>>
    /\ UNCHANGED <<adds, rdb>>
    /\ UNCHANGED <<cl, ns, fw, wide>>

(***************************************************************************)
(* A task invokes a store operation (impl Store for MemStore).             *)
(***************************************************************************)
\* history: the record of k has expired by now
Late(k) == k \in DOMAIN data /\ expired_at(data[k], TTL, now)

Invoke(p, o, k, v) ==
    /\ pc[p] = "idle"
    /\ nops < MaxOps
    /\ nops' = nops + 1
    /\ pc' = [pc EXCEPT ![p] = "lock"]
    /\ op' = [op EXCEPT ![p] = o]
    /\ key' = [key EXCEPT ![p] = k]
    /\ val' = [val EXCEPT ![p] = v]
    /\ t0' = [t0 EXCEPT ![p] = IF Late(k) THEN now ELSE -1]
    /\ UNCHANGED pipeVars
    /\ UNCHANGED <<now, data, mutex, ret, win>>
    /\ UNCHANGED <<adds, rdb>>
    /\ UNCHANGED <<cl, ns, fw, wide>>

\* MemStore::incr_by(key, val)
CallIncrBy(p) == \E k \in Keys, v \in Amounts : Invoke(p, "incr_by", k, v)

\* MemStore::incr(key) = incr_by(key, 1)
CallIncr(p) == \E k \in Keys : Invoke(p, "incr_by", k, 1)

\* MemStore::del(key)
CallDel(p) == \E k \in Keys : Invoke(p, "del", k, 0)

\* MemStore::clear()
CallClear(p) == Invoke(p, "clear", "none", 0)

(***************************************************************************)
(* self.inner.lock().await: the task waits until the mutex is free.        *)
(***************************************************************************)
\* a lock that is granted while another task holds it
MutexFree_always == TRUE

MutexFree == mutex = NoOwner

Lock(p) ==
    /\ pc[p] = "lock"
    /\ NoneDone
    /\ MutexFree
    /\ mutex' = p
    /\ pc' = [pc EXCEPT ![p] = op[p]]
    /\ UNCHANGED pipeVars
    /\ UNCHANGED <<now, data, op, key, val, ret, t0, nops, win>>
    /\ UNCHANGED <<adds, rdb>>
    /\ UNCHANGED <<cl, ns, fw, wide>>

(***************************************************************************)
(* MemStoreInner::incr_by, statement by statement; Utc::now() is read by   *)
(* or_default, by expired and by the reset, and the clock may advance      *)
(* between two reads.                                                      *)
(***************************************************************************)
\* let entry = self.data.entry(key).or_default();
Entry(p) ==
    /\ pc[p] = "incr_by"
    /\ NoneDone
    /\ data' = or_default(data, key[p], now)
    /\ pc' = [pc EXCEPT ![p] = "expired"]
    /\ UNCHANGED pipeVars
    /\ UNCHANGED <<now, mutex, op, key, val, ret, t0, nops, win>>
    /\ UNCHANGED <<adds, rdb>>
    /\ UNCHANGED <<cl, ns, fw, wide>>

\* an expiry check with its outcome inverted
Expired_inverted(p) ==
    /\ pc[p] = "expired"
    /\ NoneDone
    /\ key[p] \in DOMAIN data   \* entry refers to a slot of the map
    /\ pc' = [pc EXCEPT ![p] =
                IF expired_at(data[key[p]], TTL, now) THEN "add" ELSE "reset"]
    /\ UNCHANGED pipeVars
    /\ UNCHANGED <<now, data, mutex, op, key, val, ret, t0, nops, win>>
    /\ UNCHANGED <<adds, rdb>>
    /\ UNCHANGED <<cl, ns, fw, wide>>

\* a variant of the expiry check that decides at the call's arrival, before
\* the lock is held, instead of under the lock: every call that arrived
\* after the expiry resets the record
Expired_at_arrival(p) ==
    /\ pc[p] = "expired"
    /\ NoneDone
    /\ key[p] \in DOMAIN data   \* entry refers to a slot of the map
    /\ pc' = [pc EXCEPT ![p] =
                IF t0[p] # -1 \/ expired_at(data[key[p]], TTL, now)
                THEN "reset" ELSE "add"]
    /\ UNCHANGED pipeVars
    /\ UNCHANGED <<now, data, mutex, op, key, val, ret, t0, nops, win>>
    /\ UNCHANGED <<adds, rdb>>
    /\ UNCHANGED <<cl, ns, fw, wide>>

\* if entry.expired(self.ttl)
Expired(p) ==
    /\ pc[p] = "expired"
    /\ NoneDone
    /\ key[p] \in DOMAIN data   \* entry refers to a slot of the map
    /\ pc' = [pc EXCEPT ![p] =
                IF expired_at(data[key[p]], TTL, now) THEN "reset" ELSE "add"]
    /\ UNCHANGED pipeVars
    /\ UNCHANGED <<now, data, mutex, op, key, val, ret, t0, nops, win>>
    /\ UNCHANGED <<adds, rdb>>
    /\ UNCHANGED <<cl, ns, fw, wide>>

\* *entry = DateCount::default()
Reset(p) ==
    /\ pc[p] = "reset"
    /\ NoneDone
    /\ key[p] \in DOMAIN data   \* entry refers to a slot of the map
    /\ data' = [data EXCEPT ![key[p]] = DateCountDefault(now)]
    /\ pc' = [pc EXCEPT ![p] = "add"]
    /\ UNCHANGED pipeVars
    /\ UNCHANGED <<now, mutex, op, key, val, ret, t0, nops, win>>
    /\ UNCHANGED <<adds, rdb>>
    /\ UNCHANGED <<cl, ns, fw, wide>>

\* entry.count = val
added_overwrites(entry, v) == [entry EXCEPT !.count = v]

\* entry.count += val
added(entry, v) == [entry EXCEPT !.count = AddU32(entry.count, v)]

\* an increment that also restarts the window
Add_touch(p) ==
    /\ pc[p] = "add"
    /\ NoneDone
    /\ key[p] \in DOMAIN data   \* entry refers to a slot of the map
    /\ data' = [data EXCEPT ![key[p]] =
                  [create_date |-> now, count |-> AddU32(@.count, val[p])]]
    /\ ret' = [ret EXCEPT ![p] =
                 DateCountUntil([create_date |-> now,
                     count |-> AddU32(data[key[p]].count, val[p])], TTL)]
    /\ pc' = [pc EXCEPT ![p] = "unlock"]
    /\ adds' = [adds EXCEPT ![p] = @ + 1]
    /\ UNCHANGED pipeVars
    /\ UNCHANGED <<now, mutex, op, key, val, t0, nops, win, rdb>>
    /\ UNCHANGED <<cl, ns, fw, wide>>

\* entry.count += val; DateCountUntil { date_count: *entry, until: .. }
Add(p) ==
    /\ pc[p] = "add"
    /\ NoneDone
    /\ key[p] \in DOMAIN data   \* entry refers to a slot of the map
    /\ data' = [data EXCEPT ![key[p]] = added(data[key[p]], val[p])]
    /\ ret' = [ret EXCEPT ![p] =
                 DateCountUntil(added(data[key[p]], val[p]), TTL)]
    /\ pc' = [pc EXCEPT ![p] = "unlock"]
    /\ UNCHANGED pipeVars
    /\ UNCHANGED <<now, mutex, op, key, val, t0, nops, win>>
    /\ adds' = [adds EXCEPT ![p] = @ + 1]
    /\ UNCHANGED rdb
    /\ UNCHANGED <<cl, ns, fw, wide>>

(***************************************************************************)
(* MemStoreInner::del and MemStoreInner::clear                             *)
(***************************************************************************)
\* a del that returns the record and leaves it in the map
del_map_keeps(map, k) == map

\* a del that drops every record
del_map_all(map, k) == EmptyMap

\* what del leaves in the map
del_map(map, k) == remove(map, k)

Del(p) ==
    /\ pc[p] = "del"
    /\ data' = del_map(data, key[p])
    /\ ret' = [ret EXCEPT ![p] =
                 IF key[p] \in DOMAIN data
                 THEN DateCountUntil(data[key[p]], TTL) ELSE NoValue]
    /\ pc' = [pc EXCEPT ![p] = "unlock"]
    /\ UNCHANGED pipeVars
    /\ UNCHANGED <<now, mutex, op, key, val, t0, nops, win>>
    /\ UNCHANGED <<adds, rdb>>
    /\ UNCHANGED <<cl, ns, fw, wide>>

\* Clear asking for the lock a second time while it owns it.
Clear_relocks(p) ==
    /\ pc[p] = "clear"
    /\ data' = EmptyMap
    /\ pc' = [pc EXCEPT ![p] = "lock"]
    /\ UNCHANGED pipeVars
    /\ UNCHANGED <<now, mutex, op, key, val, ret, t0, nops, win>>
    /\ UNCHANGED <<adds, rdb>>
    /\ UNCHANGED <<cl, ns, fw, wide>>

Clear(p) ==
    /\ pc[p] = "clear"
    /\ data' = EmptyMap
    /\ pc' = [pc EXCEPT ![p] = "unlock"]
    /\ UNCHANGED pipeVars
    /\ UNCHANGED <<now, mutex, op, key, val, ret, t0, nops, win>>
    /\ UNCHANGED <<adds, rdb>>
    /\ UNCHANGED <<cl, ns, fw, wide>>

(***************************************************************************)
(* The guard is dropped and Ok(value) is returned to the caller.           *)
(***************************************************************************)
Returned(w, o, k, v, r) ==
    IF o = "incr_by" THEN Reported(w, k, v, r)
    ELSE IF o = "del" THEN remove(w, k)
    ELSE NoWindows

Unlock(p) ==
    /\ pc[p] = "unlock"
    /\ mutex' = NoOwner
    /\ win' = Returned(win, op[p], key[p], val[p], ret[p])
    /\ pc' = [pc EXCEPT ![p] = "idle"]
    /\ op' = [op EXCEPT ![p] = "none"]
    /\ key' = [key EXCEPT ![p] = "none"]
    /\ val' = [val EXCEPT ![p] = 0]
    /\ ret' = [ret EXCEPT ![p] = NoValue]
    /\ t0' = [t0 EXCEPT ![p] = -1]
    /\ UNCHANGED pipeVars
    /\ UNCHANGED <<now, data, nops>>
    /\ adds' = [adds EXCEPT ![p] = 0]
    /\ UNCHANGED rdb
    /\ UNCHANGED <<cl, ns, fw, wide>>

Next ==
    \/ Tick
    \/ \E p \in Procs : CallIncrBy(p)
    \/ \E p \in Procs : CallIncr(p)
    \/ \E p \in Procs : CallDel(p)
    \/ \E p \in Procs : CallClear(p)
    \/ \E p \in Procs : Lock(p)
    \/ \E p \in Procs : Entry(p)
    \/ \E p \in Procs : Expired(p)
    \/ \E p \in Procs : Reset(p)
    \/ \E p \in Procs : Add(p)
    \/ \E p \in Procs : Del(p)
    \/ \E p \in Procs : Clear(p)
    \/ \E p \in Procs : Unlock(p)

Spec == Init /\ [][Next]_vars

(***************************************************************************)
(* Controller (controller.rs): the hook slots and the default hooks        *)
(***************************************************************************)
\* Controller::default(): new() with the four default functions
ControllerDefault ==
    [fn_do_rate_limit |-> "default", fn_find_identifier |-> "default",
     fn_on_rate_limit_error |-> "default", fn_on_store_error |-> "default",
     fn_on_success |-> "none"]

\* the controller of tests::test_do_rate_limit
ControllerTest ==
    [ControllerDefault EXCEPT !.fn_do_rate_limit = "test"]

\* default_do_rate_limit
default_do_rate_limit(p) == TRUE

\* test_do_rate_limit_default_rate_limit_func: req.path() != "/bypass"
test_do_rate_limit(p) == p # "/bypass"

\* default_find_identifier: the peer's ip, or "<Unknown Source IP>"
default_find_identifier(pr) ==
    IF pr = "none" THEN "<Unknown Source IP>" ELSE pr

\* a rate-limit response without the X-Rate-Limited-Until header
default_on_rate_limit_error_bare(until, by) ==
    [status |-> 429, until |-> -1, by |-> by]

\* default_on_rate_limit_error: 429, with X-Rate-Limited-Until when the
\* error carries an expiry (until = -1: None)
default_on_rate_limit_error(until, by) ==
    [status |-> 429, until |-> until, by |-> by]

\* default_on_store_error: 500
default_on_store_error(by) == [status |-> 500, until |-> -1, by |-> by]

(***************************************************************************)
(* RateLimitService::call (middleware.rs)                                  *)
(***************************************************************************)
\* the events evs, made for the request in its layer l
Ev(l, evs) == [i \in 1..Len(evs) |-> <<l, evs[i]>>]

\* a request arrives at the outermost RateLimitService
Arrival(r, peers, paths) ==
    /\ pc[r] = "idle"
    /\ NoneDone
    /\ nops < MaxReqs
    /\ nops' = nops + 1
    /\ \E pr \in peers, pa \in paths :
        /\ peer' = [peer EXCEPT ![r] = pr]
        /\ path' = [path EXCEPT ![r] = pa]
        /\ advAt' = [advAt EXCEPT ![r] =
                       IF /\ default_find_identifier(pr) \in DOMAIN adv
                          /\ now > adv[default_find_identifier(pr)].until
                       THEN adv[default_find_identifier(pr)] ELSE NoAd]
    /\ marker' = [marker EXCEPT ![r] = FALSE]
    /\ layer' = [layer EXCEPT ![r] = 1]
    /\ resp' = [resp EXCEPT ![r] = NoResponse]
    /\ trace' = [trace EXCEPT ![r] = <<>>]
    /\ pos' = [pos EXCEPT ![r] = 0]
    /\ pc' = [pc EXCEPT ![r] = "call"]
    /\ op' = [op EXCEPT ![r] = "none"]
    /\ key' = [key EXCEPT ![r] = "none"]
    /\ val' = [val EXCEPT ![r] = 0]
    /\ ret' = [ret EXCEPT ![r] = NoValue]
    /\ t0' = [t0 EXCEPT ![r] = -1]
    /\ UNCHANGED <<now, data, mutex, win, controller, adv>>
    /\ adds' = [adds EXCEPT ![r] = 0]
    /\ UNCHANGED rdb
    /\ UNCHANGED <<cl, ns, fw, wide>>

\* a marker that is never found
checked_never(r) == FALSE

\* RateLimitByPass::checked
checked(r) == marker[r]

\* the configured hook is not consulted
do_rate_limit_default_only(r) ==
    ~checked(r) /\ default_do_rate_limit(path[r])

\* line 81-86: !checked && (fn_do_rate_limit or default_do_rate_limit)
do_rate_limit(r) ==
    /\ ~checked(r)
    /\ IF controller.fn_do_rate_limit = "test"
       THEN test_do_rate_limit(path[r])
       ELSE default_do_rate_limit(path[r])

\* line 90-91: fn_find_identifier.as_ref().map(|f| f(req)), as a sequence
\* that is empty for None
identifier(r) ==
    IF controller.fn_find_identifier = "none" THEN <<>>
    ELSE <<default_find_identifier(peer[r])>>

\* the identifier hook invoked first, whatever should_rate_limit says
CallEvents_identifier_first(r) ==
    (IF checked(r) THEN <<"checked">> ELSE <<"not_checked">>)
    \o (IF identifier(r) # <<>> THEN <<"find_identifier">> ELSE <<>>)
    \o (IF checked(r) THEN <<>> ELSE <<"do_rate_limit">>)

\* the hooks line 80-93 invoke, after the marker was found ("checked") or
\* not ("not_checked")
CallEvents(r) ==
    (IF checked(r) THEN <<"checked">> ELSE <<"not_checked", "do_rate_limit">>)
    \o (IF do_rate_limit(r) /\ identifier(r) # <<>>
        THEN <<"find_identifier">> ELSE <<>>)

\* a marker that is set only for a request that was counted
Forwarded_marks_counted(r, evs) ==
    /\ marker' = [marker EXCEPT ![r] =
                    @ \/ \E i \in 1..Len(evs) : evs[i] = "Ok"]
    /\ trace' = [trace EXCEPT ![r] =
                   @ \o Ev(layer[r], evs \o <<"check", "service">>)]
    /\ layer' = [layer EXCEPT ![r] = IF @ < Layers THEN @ + 1 ELSE @]
    /\ pc' = [pc EXCEPT ![r] = IF layer[r] < Layers THEN "call" ELSE "handler"]
    /\ UNCHANGED resp

\* line 135-141: the marker is set and the request is passed to the wrapped
\* service: the next RateLimitService or the handler
Forwarded(r, evs) ==
    /\ marker' = [marker EXCEPT ![r] = TRUE]
    /\ trace' = [trace EXCEPT ![r] =
                   @ \o Ev(layer[r], evs \o <<"check", "service">>)]
    /\ layer' = [layer EXCEPT ![r] = IF @ < Layers THEN @ + 1 ELSE @]
    /\ pc' = [pc EXCEPT ![r] = IF layer[r] < Layers THEN "call" ELSE "handler"]
    /\ UNCHANGED resp

\* line 96-130: a hook's response is returned and nothing is forwarded
Responded(r, evs, response) ==
    /\ trace' = [trace EXCEPT ![r] = @ \o Ev(layer[r], evs)]
    /\ resp' = [resp EXCEPT ![r] = response]
    /\ pc' = [pc EXCEPT ![r] = "done"]
    /\ UNCHANGED <<marker, layer>>

\* line 75-95: up to the call of store.incr(identifier), which starts at
\* position first of the store's code
Call(r, first) ==
    /\ pc[r] = "call"
    /\ NoneDone
    /\ IF do_rate_limit(r) /\ identifier(r) # <<>>
       THEN /\ trace' = [trace EXCEPT ![r] =
                           @ \o Ev(layer[r], CallEvents(r) \o <<"incr">>)]
            /\ pc' = [pc EXCEPT ![r] = first]
            /\ op' = [op EXCEPT ![r] = "incr_by"]
            /\ key' = [key EXCEPT ![r] = identifier(r)[1]]
            /\ val' = [val EXCEPT ![r] = 1]
            /\ t0' = [t0 EXCEPT ![r] = IF Late(identifier(r)[1]) THEN now ELSE -1]
            /\ UNCHANGED <<marker, layer, resp>>
       ELSE /\ Forwarded(r, CallEvents(r))
            /\ UNCHANGED <<op, key, val, t0>>
    /\ ret' = [ret EXCEPT ![r] = NoValue]
    /\ pos' = [pos EXCEPT ![r] = 0]
    /\ advAt' = [advAt EXCEPT ![r] = IF layer[r] = 1 THEN @ ELSE NoAd]
    /\ UNCHANGED <<now, data, mutex, nops, win, controller, peer, path, adv>>
    /\ UNCHANGED <<adds, rdb>>
    /\ UNCHANGED <<cl, ns, fw, wide>>

\* the response of the rate-limit hook
RateLimitResponse(value) ==
    default_on_rate_limit_error(value.until,
        IF controller.fn_on_rate_limit_error = "none"
        THEN "default_on_rate_limit_error" ELSE "fn_on_rate_limit_error")

\* a comparison that rejects at count = max already
Matched_at_max(r, value) ==
    IF value.count >= Max
    THEN Responded(r, <<"Ok", "on_rate_limit_error">>, RateLimitResponse(value))
    ELSE Forwarded(r, <<"Ok">>)

\* a comparison of the count the request found, without its own increment
Matched_before_own(r, value) ==
    IF value.count - 1 > Max
    THEN Responded(r, <<"Ok", "on_rate_limit_error">>, RateLimitResponse(value))
    ELSE Forwarded(r, <<"Ok">>)

\* a rate-limit arm without its return
Matched_falls_through(r, value) ==
    Forwarded(r, IF value.count > Max
                 THEN <<"Ok", "on_rate_limit_error">> ELSE <<"Ok">>)

\* line 113-130: Ok(value): the threshold comparison and what follows it
Matched(r, value) ==
    IF value.count > Max
    THEN Responded(r, <<"Ok", "on_rate_limit_error">>, RateLimitResponse(value))
    ELSE Forwarded(r, <<"Ok">>)

\* store.incr of the MemStore returns: the guard is dropped, the value is
\* matched
IncrReturned(r) ==
    /\ pc[r] = "unlock"
    /\ NoneDone
    /\ mutex' = NoOwner
    /\ win' = Returned(win, op[r], key[r], val[r], ret[r])
    /\ pos' = [pos EXCEPT ![r] = win'[key[r]].sum]
    /\ Matched(r, ret[r])
    /\ adv' = IF pc'[r] = "done"
              THEN [x \in DOMAIN adv \cup {key[r]} |->
                      IF x # key[r] THEN adv[x]
                      ELSE IF x \in DOMAIN adv
                           THEN [adv[x] EXCEPT !.n = @ + 1]
                           ELSE [until |-> ret[r].until, n |-> 1]]
              ELSE [x \in DOMAIN adv \ {key[r]} |-> adv[x]]
    /\ t0' = [t0 EXCEPT ![r] = -1]
    /\ UNCHANGED <<now, data, op, key, val, ret, nops, controller, peer,
                   path, advAt>>
    /\ UNCHANGED <<adds, rdb>>
    /\ UNCHANGED <<cl, ns, wide>>

\* in SpecPipe the history of the forwards is not kept
MemIncrReturn(r) == IncrReturned(r) /\ UNCHANGED fw

\* the handler behind the innermost RateLimitService answers (the handler
\* `empty` of the tests: 204)
Handler(r) ==
    /\ pc[r] = "handler"
    /\ NoneDone
    /\ trace' = [trace EXCEPT ![r] = Append(@, <<Layers + 1, "handler">>)]
    /\ resp' = [resp EXCEPT ![r] = [status |-> 204, until |-> -1, by |-> "handler"]]
    /\ pc' = [pc EXCEPT ![r] = "done"]
    /\ ret' = [ret EXCEPT ![r] = NoValue]
    /\ pos' = [pos EXCEPT ![r] = 0]
    /\ advAt' = [advAt EXCEPT ![r] = NoAd]
    /\ UNCHANGED <<now, data, mutex, op, key, val, t0, nops, win,
                   controller, peer, path, marker, layer, adv>>
    /\ UNCHANGED <<adds, rdb>>
    /\ UNCHANGED <<cl, ns, fw, wide>>

\* the response has been returned: the request is dropped
Leave(r) ==
    /\ pc[r] = "done"
    /\ pc' = [pc EXCEPT ![r] = "idle"]
    /\ op' = [op EXCEPT ![r] = "none"]
    /\ key' = [key EXCEPT ![r] = "none"]
    /\ val' = [val EXCEPT ![r] = 0]
    /\ ret' = [ret EXCEPT ![r] = NoValue]
    /\ t0' = [t0 EXCEPT ![r] = -1]
    /\ peer' = [peer EXCEPT ![r] = "none"]
    /\ path' = [path EXCEPT ![r] = "/"]
    /\ marker' = [marker EXCEPT ![r] = FALSE]
    /\ layer' = [layer EXCEPT ![r] = 1]
    /\ resp' = [resp EXCEPT ![r] = NoResponse]
    /\ trace' = [trace EXCEPT ![r] = <<>>]
    /\ pos' = [pos EXCEPT ![r] = 0]
    /\ advAt' = [advAt EXCEPT ![r] = NoAd]
    /\ adds' = [adds EXCEPT ![r] = 0]
    /\ UNCHANGED <<now, data, mutex, nops, win, controller, adv, rdb>>
    /\ UNCHANGED <<cl, ns, fw, wide>>

MemCall(r) == Call(r, "lock")

Arrive(r) == Arrival(r, Peers, Paths)

InitMemPipe ==
    /\ InitStore
    /\ InitPipe
    /\ controller \in {ControllerNew, ControllerDefault, ControllerTest}

NextPipe ==
    \/ Tick
    \/ \E r \in Procs : Arrive(r)
    \/ \E r \in Procs : MemCall(r)
    \/ \E r \in Procs : Lock(r)
    \/ \E r \in Procs : Entry(r)
    \/ \E r \in Procs : Expired(r)
    \/ \E r \in Procs : Reset(r)
    \/ \E r \in Procs : Add(r)
    \/ \E r \in Procs : MemIncrReturn(r)
    \/ \E r \in Procs : Handler(r)
    \/ \E r \in Procs : Leave(r)

SpecPipe == InitMemPipe /\ [][NextPipe]_vars

(***************************************************************************)
(* RedisStore (redis_store.rs). The remote service keeps, per key, a value *)
(* and the instant in milliseconds at which the key expires (-1: never).   *)
(* redis::pipe() sends the four commands in one batch without MULTI/EXEC;  *)
(* the service executes them in order, one command at a time.              *)
(***************************************************************************)
\* the prefix of the store (RedisStore::from_client)
Prefix == "test-actix-web-rate-limit-2"

\* RedisStoreInner::get_key: format!("{}-{}", prefix, key)
get_key(prefix, k) == prefix \o "-" \o k

\* chrono::Duration::num_milliseconds of a whole number of seconds
num_milliseconds(seconds) == seconds * 1000

\* the reply to GET for a key that does not exist
Nil == -1

\* the service treats a key as present until its expiry has passed
Live(db, k, instant) ==
    /\ k \in DOMAIN db
    /\ db[k].exp = -1 \/ num_milliseconds(instant) <= db[k].exp

\* an expired key is dropped when a command touches it
purged(db, k, instant) ==
    IF k \in DOMAIN db /\ ~Live(db, k, instant) THEN remove(db, k) ELSE db

put(db, k, rec) == [x \in DOMAIN db \cup {k} |-> IF x = k THEN rec ELSE db[x]]

\* SET key 0 NX PX px
set_nx_px(db, k, px, instant) ==
    IF Live(db, k, instant) THEN db
    ELSE put(db, k, [value |-> 0, exp |-> num_milliseconds(instant) + px])

\* INCRBY key amount: a key that does not exist is created without expiry
incrby(db, k, amount, instant) ==
    IF Live(db, k, instant)
    THEN [db EXCEPT ![k].value = @ + amount]
    ELSE put(db, k, [value |-> amount, exp |-> -1])

\* GET key
get_reply(db, k, instant) == IF Live(db, k, instant) THEN db[k].value ELSE Nil

\* TTL key: -2 without the key, -1 without expiry, else the remaining
\* time rounded to seconds
ttl_reply(db, k, instant) ==
    IF ~Live(db, k, instant) THEN -2
    ELSE IF db[k].exp = -1 THEN -1
    ELSE (db[k].exp - num_milliseconds(instant) + 500) \div 1000

\* an error arm without its return
StoreFailed_falls_through(r) == Forwarded(r, <<"Err", "on_store_error">>)

\* line 96-111: Err(e): the response of the store-error hook is returned
StoreFailed(r) ==
    Responded(r, <<"Err", "on_store_error">>,
        default_on_store_error(
            IF controller.fn_on_store_error = "none"
            THEN "default_on_store_error" ELSE "fn_on_store_error"))

\* self.inner.conn().await? fails: incr returns Err before any command
RedisConnErr(r) ==
    /\ pc[r] = "conn"
    /\ NoneDone
    /\ StoreFailed(r)
    /\ UNCHANGED <<now, data, mutex, op, key, val, ret, t0, nops, win, adds,
                   rdb, controller, peer, path, pos, adv, advAt>>
    /\ UNCHANGED <<cl, ns, fw, wide>>

\* self.inner.conn().await? succeeds and the batch is sent: SET NX PX
RedisSet(r) ==
    /\ pc[r] = "conn"
    /\ NoneDone
    /\ rdb' = set_nx_px(purged(rdb, get_key(Prefix, key[r]), now),
                        get_key(Prefix, key[r]), num_milliseconds(TTL), now)
    /\ pc' = [pc EXCEPT ![r] = "incrby"]
    /\ UNCHANGED <<now, data, mutex, op, key, val, ret, t0, nops, win, adds>>
    /\ UNCHANGED pipeVars
    /\ UNCHANGED <<cl, ns, fw, wide>>

\* INCRBY; pos records the value of the key right after this command
RedisIncrBy(r) ==
    /\ pc[r] = "incrby"
    /\ NoneDone
    /\ rdb' = incrby(purged(rdb, get_key(Prefix, key[r]), now),
                     get_key(Prefix, key[r]), val[r], now)
    /\ adds' = [adds EXCEPT ![r] = @ + 1]
    /\ pos' = [pos EXCEPT ![r] = rdb'[get_key(Prefix, key[r])].value]
    /\ pc' = [pc EXCEPT ![r] = "get"]
    /\ UNCHANGED <<now, data, mutex, op, key, val, ret, t0, nops, win>>
    /\ UNCHANGED <<controller, peer, path, marker, layer, resp, trace, adv, advAt>>
    /\ UNCHANGED <<cl, ns, fw, wide>>

RedisGet(r) ==
    /\ pc[r] = "get"
    /\ NoneDone
    /\ rdb' = purged(rdb, get_key(Prefix, key[r]), now)
    /\ ret' = [ret EXCEPT ![r].count = get_reply(rdb, get_key(Prefix, key[r]), now)]
    /\ pc' = [pc EXCEPT ![r] = "ttl"]
    /\ UNCHANGED <<now, data, mutex, op, key, val, t0, nops, win, adds>>
    /\ UNCHANGED pipeVars
    /\ UNCHANGED <<cl, ns, fw, wide>>

RedisTtl(r) ==
    /\ pc[r] = "ttl"
    /\ NoneDone
    /\ rdb' = purged(rdb, get_key(Prefix, key[r]), now)
    /\ ret' = [ret EXCEPT ![r].until = ttl_reply(rdb, get_key(Prefix, key[r]), now)]
    /\ pc' = [pc EXCEPT ![r] = "reply"]
    /\ UNCHANGED <<now, data, mutex, op, key, val, t0, nops, win, adds>>
    /\ UNCHANGED pipeVars
    /\ UNCHANGED <<cl, ns, fw, wide>>

\* RateLimitResult { count: result.0, expire_date: Utc::now() + seconds(result.1) }
RateLimitResult(replies, instant) ==
    [count |-> replies.count, create_date |-> -1,
     until |-> instant + replies.until]

\* query_async(..).await? yields (i32, i64): incr returns Ok(value)
RedisReplyOk(r) ==
    /\ pc[r] = "reply"
    /\ NoneDone
    /\ ret[r].count # Nil
    /\ ret' = [ret EXCEPT ![r] = RateLimitResult(ret[r], now)]
    /\ Matched(r, RateLimitResult(ret[r], now))
    /\ UNCHANGED <<now, data, mutex, op, key, val, t0, nops, win, adds, rdb,
                   controller, peer, path, pos, adv, advAt>>
    /\ UNCHANGED <<cl, ns, fw, wide>>

\* query_async(..).await? fails (the transport fails, or the reply to GET is
\* nil and is no i32): incr returns Err after the commands were executed
RedisReplyErr(r) ==
    /\ pc[r] = "reply"
    /\ NoneDone
    /\ StoreFailed(r)
    /\ UNCHANGED <<now, data, mutex, op, key, val, ret, t0, nops, win, adds,
                   rdb, controller, peer, path, pos, adv, advAt>>
    /\ UNCHANGED <<cl, ns, fw, wide>>

RedisCall(r) == Call(r, "conn")

\* the requests of examples/redis-middleware.rs: no hook looks at the path;
\* they come from one peer
RedisArrive(r) == Arrival(r, {"127.0.0.1"}, {"/"})

\* the controller of examples/redis-middleware.rs
ControllerExample == [ControllerDefault EXCEPT !.fn_on_success = "set"]

\* Controller::new().with_find_identifier(default_find_identifier)
ControllerFind == [ControllerNew EXCEPT !.fn_find_identifier = "default"]

InitRedis ==
    /\ InitStore
    /\ InitPipe
    /\ controller \in {ControllerExample, ControllerFind}

NextRedis ==
    \/ Tick
    \/ \E r \in Procs : RedisArrive(r)
    \/ \E r \in Procs : RedisCall(r)
    \/ \E r \in Procs : RedisConnErr(r)
    \/ \E r \in Procs : RedisSet(r)
    \/ \E r \in Procs : RedisIncrBy(r)
    \/ \E r \in Procs : RedisGet(r)
    \/ \E r \in Procs : RedisTtl(r)
    \/ \E r \in Procs : RedisReplyOk(r)
    \/ \E r \in Procs : RedisReplyErr(r)
    \/ \E r \in Procs : Handler(r)
    \/ \E r \in Procs : Leave(r)

SpecRedis == InitRedis /\ [][NextRedis]_vars

(***************************************************************************)
(* Properties of the MemStore (specification Spec)                         *)
(***************************************************************************)
\* the task is about to return from incr_by with the value ret[p]
Returning(p) == pc[p] = "unlock" /\ op[p] = "incr_by"

\* the value returned to p continues the window last reported for its key
SameWindow(p) ==
    /\ key[p] \in DOMAIN win
    /\ win[key[p]].create_date = ret[p].create_date

\* C2: no lost update under concurrency. Whenever no task holds the lock,
\* every stored count equals the sum of the amounts of the incr_by calls
\* that returned in the key's window, and every value returned is the sum of
\* the amounts applied before it in the window plus its own amount (the
\* returned counts follow one total order: for amount 1 they are 1, 2, ..).
C2_NoLostUpdate ==
    /\ mutex = NoOwner =>
         /\ DOMAIN data = DOMAIN win
         /\ \A k \in DOMAIN data :
              /\ data[k].create_date = win[k].create_date
              /\ data[k].count = win[k].sum
    /\ \A p \in Procs : Returning(p) =>
         ret[p].count = (IF SameWindow(p) THEN win[key[p]].sum ELSE 0) + val[p]

\* C2 witness: a task returns the third increment of a window while the
\* other task, which called incr_by on the same key concurrently, waits for
\* the lock
C2_Witness ==
    \E p, q \in Procs :
        /\ Returning(p) /\ pc[q] = "lock" /\ op[q] = "incr_by"
        /\ key[q] = key[p]
        /\ SameWindow(p) /\ win[key[p]].sum = 2 /\ ret[p].count = 3

\* C3: reset on expiry. A call invoked strictly later than creation + TTL of
\* the key's window returns count = its amount, with a creation instant read
\* during the call and expiry = creation + TTL; a call that returns while
\* the key's window has not expired continues it.
C3_ResetOnExpiry ==
    \A p \in Procs : Returning(p) /\ key[p] \in DOMAIN win =>
        /\ t0[p] > win[key[p]].create_date + TTL =>
             /\ ret[p].count = val[p]
             /\ t0[p] <= ret[p].create_date
             /\ ret[p].create_date <= now
             /\ ret[p].until = ret[p].create_date + TTL
        /\ now <= win[key[p]].create_date + TTL =>
             /\ ret[p].create_date = win[key[p]].create_date
             /\ ret[p].count = win[key[p]].last + val[p]

\* C3 witness: the scenario of tests::ttl. John's window has expired and
\* John's call restarts at its amount, while Meg, whose window is still
\* open, has accumulated two calls.
C3_Witness ==
    \E p \in Procs :
        /\ Returning(p) /\ key[p] = "John" /\ "John" \in DOMAIN win
        /\ win["John"].last >= 1
        /\ t0[p] > win["John"].create_date + TTL
        /\ ret[p].count = val[p]
        /\ "Meg" \in DOMAIN win /\ win["Meg"].last = 4
        /\ now <= win["Meg"].create_date + TTL

\* C4: monotonic accumulation. Inside one window every incr_by(key, a)
\* returns the count returned before it for that key plus a, and a on the
\* first call of the window.
C4_Accumulates ==
    \A p \in Procs : Returning(p) =>
        ret[p].count =
            (IF SameWindow(p) THEN win[key[p]].last ELSE 0) + val[p]

\* C4 witness: the increments 1, 1, 1, 2 of tests::incr_del: the call
\* returns 5 after 3
C4_Witness ==
    \E p \in Procs :
        /\ Returning(p) /\ SameWindow(p)
        /\ win[key[p]].last = 3 /\ val[p] = 2 /\ ret[p].count = 5

\* the record of key b, or its absence
Rec(map, b) == IF b \in DOMAIN map THEN <<map[b]>> ELSE <<>>

\* C5: isolation across identifiers. A step of incr, incr_by or del on key A
\* leaves the record of every other key B as it was (present or absent,
\* count and creation instant), and so does what has been reported for B.
C5_Isolation ==
    [][\A p \in Procs :
         (op[p] \in {"incr_by", "del"} /\ pc'[p] # pc[p]) =>
             \A b \in Keys \ {key[p]} :
                 /\ Rec(data', b) = Rec(data, b)
                 /\ Rec(win', b) = Rec(win, b)]_vars

\* C5 witness: a del of Meg has acted while John's record holds a count
C5_Witness ==
    \E p \in Procs :
        /\ pc[p] = "unlock" /\ op[p] = "del" /\ key[p] = "Meg"
        /\ ret[p].count = 2
        /\ "John" \in DOMAIN data /\ data["John"].count = 3

\* ---------------------------------------------------------------------
\* Properties of the pipeline (SpecPipe, SpecRedis)
\* ---------------------------------------------------------------------

\* how often the pass of layer l of request r recorded the event ev
Num(r, l, ev) ==
    Cardinality({i \in 1..Len(trace[r]) : trace[r][i] = <<l, ev>>})

\* how often any pass of request r recorded the event ev
NumAll(r, ev) ==
    Cardinality({i \in 1..Len(trace[r]) : trace[r][i][2] = ev})

\* the events the pass of layer l of request r recorded, in order
Pass(r, l) ==
    LET own == SelectSeq(trace[r], LAMBDA e : e[1] = l)
    IN  [i \in 1..Len(own) |-> own[i][2]]

\* request r was answered with the rate-limit response
Limited(r) ==
    /\ pc[r] = "done"
    /\ resp[r].status = 429
    /\ NumAll(r, "on_rate_limit_error") = 1
    /\ NumAll(r, "service") = 0

\* request r was passed to the wrapped service by the pass that counted it
Allowed(r) ==
    /\ pc[r] # "done"
    /\ marker[r]
    /\ NumAll(r, "on_rate_limit_error") = 0
    /\ Num(r, 1, "service") = 1

\* store.incr of request r has just returned Ok and the value was matched
Decided(r) == pos[r] > 0

\* C1: a request that is counted as the n-th of its identifier's window is
\* passed on when n <= max_count and answered with the rate-limit response
\* when n > max_count; the count the store returned is n, so a request with
\* count = max_count is never rejected.
C1_Threshold ==
    \A r \in Procs : Decided(r) =>
        /\ ret[r].count = pos[r]
        /\ pos[r] <= Max => Allowed(r)
        /\ pos[r] > Max => Limited(r)
        /\ Limited(r) \/ Allowed(r)

\* the request after the (max_count + 1)-th is rejected as well, while the
\* other task holds a request of another window position
C1_Witness ==
    \E r \in Procs :
        /\ pos[r] = Max + 2
        /\ Limited(r)
        /\ resp[r].until = win[key[r]].create_date + TTL

\* the max_count-th request of a window is passed on
C1_WitnessAtMax ==
    \E r \in Procs : pos[r] = Max /\ Allowed(r) /\ ret[r].count = Max

\* request r arrived after the expiry advertised to its identifier
AfterAdvertised(r) == advAt[r] # NoAd

\* the statement of C6 as written: a request sent strictly after the
\* advertised expiry is never answered with the rate-limit response
C6_Original ==
    \A r \in Procs : (AfterAdvertised(r) /\ Decided(r)) => ~Limited(r)

\* C6: recovery after expiry. A request sent strictly after the expiry
\* advertised to its identifier is counted in a window created after that
\* expiry, however many requests were rejected before; it is passed on
\* unless max_count requests of that new window were counted before it.
\* Rejections never postpone the expiry: every rejection since the
\* identifier's last allowed request advertises the same instant, the
\* creation of the window plus the TTL.
C6_Recovery ==
    /\ \A r \in Procs : (AfterAdvertised(r) /\ Decided(r)) =>
          /\ ret[r].create_date > advAt[r].until
          /\ ret[r].count = pos[r]
          /\ pos[r] <= Max => Allowed(r)
          /\ pos[r] > Max => Limited(r)
    /\ \A r \in Procs : (pc[r] = "unlock" /\ ret[r].count > Max) =>
          /\ ret[r].until = ret[r].create_date + TTL
          /\ key[r] \in DOMAIN adv => ret[r].until = adv[key[r]].until

\* C6 witness: the identifier was rejected twice in its window, and its
\* first request after the advertised expiry is passed on
C6_Witness ==
    \E r \in Procs :
        /\ AfterAdvertised(r) /\ advAt[r].n >= 2
        /\ pos[r] = 1 /\ Allowed(r)
        /\ ret[r].create_date > advAt[r].until

\* a pass of request r found the marker
MarkedPass(r, l) == Num(r, l, "checked") = 1

\* C9: re-entrancy guard. A pass that finds the marker on the request
\* invokes neither do_rate_limit nor find_identifier nor store.incr and
\* passes the request on; with the limiter applied several times to one
\* request the store is incremented at most once.
C9_Reentrancy ==
    \A r \in Procs :
        /\ \A l \in 1..Layers : MarkedPass(r, l) =>
              /\ Num(r, l, "do_rate_limit") = 0
              /\ Num(r, l, "find_identifier") = 0
              /\ Num(r, l, "incr") = 0
              /\ (layer[r] > l \/ pc[r] \in {"handler", "done"}) =>
                    Pass(r, l) = <<"checked", "check", "service">>
        /\ (pc[r] = "call" /\ marker[r]) => layer[r] > 1
        /\ NumAll(r, "incr") <= 1
        /\ adds[r] <= 1

\* C9 witness: a request counted once by the outer limiter has passed the
\* inner limiter and was handled
C9_Witness ==
    \E r \in Procs :
        /\ pc[r] = "done" /\ resp[r].by = "handler"
        /\ Num(r, 1, "incr") = 1 /\ adds[r] = 1
        /\ Pass(r, Layers) = <<"checked", "check", "service">>

\* do_rate_limit of the controller returns false for request r
ShouldNot(r) ==
    /\ pc[r] # "idle"
    /\ controller.fn_do_rate_limit = "test"
    /\ ~test_do_rate_limit(path[r])

\* C10: bypass by do_rate_limit. A request for which do_rate_limit returns
\* false is passed on to the handler, is never answered by a hook, and no
\* store call is made for it, whatever the count of its identifier.
C10_Bypass ==
    \A r \in Procs : ShouldNot(r) =>
        /\ adds[r] = 0
        /\ NumAll(r, "incr") = 0
        /\ NumAll(r, "find_identifier") = 0
        /\ NumAll(r, "on_rate_limit_error") = 0
        /\ NumAll(r, "on_store_error") = 0
        /\ pc[r] \in {"call", "handler", "done"}
        /\ op[r] = "none"
        /\ pc[r] = "done" =>
              /\ resp[r].by = "handler"
              /\ \A l \in 1..Layers : Num(r, l, "service") = 1

\* C10 witness: a request to /bypass is handled while its identifier is
\* above max_count in an open window
C10_Witness ==
    \E r \in Procs :
        /\ ShouldNot(r) /\ pc[r] = "done" /\ resp[r].status = 204
        /\ default_find_identifier(peer[r]) \in DOMAIN adv
        /\ default_find_identifier(peer[r]) \in DOMAIN data
        /\ data[default_find_identifier(peer[r])].count > Max
        /\ ~expired_at(data[default_find_identifier(peer[r])], TTL, now)

\* the pass of layer l of request r has started
Entered(r, l) == Num(r, l, "checked") + Num(r, l, "not_checked")

\* the outcomes the pass of layer l of request r has had
Outcomes(r, l) ==
    Num(r, l, "service") + Num(r, l, "on_rate_limit_error")
        + Num(r, l, "on_store_error")

\* the pass of layer l of request r is over
Finished(r, l) ==
    Entered(r, l) = 1 /\ (layer[r] > l \/ pc[r] \in {"handler", "done"})

\* C7: exactly one outcome per pass. A pass has at most one of the outcomes
\* forward, rate-limit response and store-error response, and exactly one
\* when it is over. store.incr is invoked exactly once by the pass that
\* reaches the store step (do_rate_limit true, identifier found) and by no
\* other; the counter is incremented once when that call returns Ok and
\* never more than once. The handler is invoked at most once and never for
\* a request that was answered by a hook.
C7_OneOutcome ==
    \A r \in Procs :
        /\ \A l \in 1..Layers :
              /\ Entered(r, l) <= 1
              /\ Outcomes(r, l) <= Entered(r, l)
              /\ Finished(r, l) => Outcomes(r, l) = 1
              /\ Num(r, l, "incr") = Num(r, l, "find_identifier")
              /\ Num(r, l, "Ok") + Num(r, l, "Err") <= Num(r, l, "incr")
              /\ (Finished(r, l) /\ Num(r, l, "incr") = 1) =>
                    Num(r, l, "Ok") + Num(r, l, "Err") = 1
        /\ NumAll(r, "incr") <= 1
        /\ adds[r] <= NumAll(r, "incr")
        /\ NumAll(r, "Ok") = 1 => adds[r] = 1
        /\ NumAll(r, "handler") <= 1
        /\ NumAll(r, "on_rate_limit_error") + NumAll(r, "on_store_error") >= 1 =>
              /\ NumAll(r, "handler") = 0
              /\ NumAll(r, "service") = 0
              /\ pc[r] = "done"
              /\ resp[r].by # "handler"

\* C7 witness: one request was counted once and answered with the
\* rate-limit response, another was counted once and is at the handler
C7_Witness ==
    \E r, q \in Procs :
        /\ pc[r] = "done" /\ resp[r].status = 429
        /\ adds[r] = 1 /\ NumAll(r, "handler") = 0
        /\ pc[q] = "handler" /\ adds[q] = 1
        /\ \A l \in 1..Layers : Outcomes(q, l) = 1

\* C8: a store failure ends the request. When store.incr returns Err the
\* response of on_store_error (500 by default) is returned; the request is
\* not passed on, the handler is not invoked, store.incr is not invoked a
\* second time, the marker is not set and the value is not matched against
\* max_count.
C8_StoreFailure ==
    \A r \in Procs : NumAll(r, "Err") >= 1 =>
        /\ pc[r] = "done"
        /\ \/ resp[r] = default_on_store_error("default_on_store_error")
           \/ resp[r] = default_on_store_error("fn_on_store_error")
        /\ resp[r].status = 500
        /\ NumAll(r, "on_store_error") = 1
        /\ ~marker[r]
        /\ NumAll(r, "incr") = 1
        /\ adds[r] <= 1
        /\ NumAll(r, "check") = 0
        /\ NumAll(r, "service") = 0
        /\ NumAll(r, "handler") = 0
        /\ NumAll(r, "Ok") = 0
        /\ NumAll(r, "on_rate_limit_error") = 0

\* C8 witness: the reply of the store could not be parsed after the counter
\* was incremented, and the request is answered with 500
C8_Witness ==
    \E r \in Procs :
        /\ NumAll(r, "Err") = 1 /\ adds[r] = 1
        /\ resp[r].status = 500 /\ pc[r] = "done"

\* the connection failed before any command was sent
C8_WitnessConn ==
    \E r \in Procs :
        /\ NumAll(r, "Err") = 1 /\ adds[r] = 0
        /\ resp[r].status = 500 /\ pc[r] = "done"

\* the controller was built by Controller::new(): no slot is set
Unset == controller = ControllerNew

\* C11: unset hooks fall back to the defaults. A limiter built with
\* Controller::new() counts every request under the default identifier as
\* one built with Controller::default() does: the pass that does not find
\* the marker invokes store.incr once, and the request is rejected when it
\* is counted beyond max_count.
C11_UnsetFallsBack ==
    \A r \in Procs : (Unset /\ Finished(r, 1)) =>
        /\ Num(r, 1, "find_identifier") = 1
        /\ Num(r, 1, "incr") = 1
        /\ adds[r] = 1

\* the on_success slot of the controller is set
OnSuccessSet == controller.fn_on_success = "set"

\* C12: on_success observation. With on_success set, a request that is
\* passed on by the pass that did not find the marker has had on_success
\* invoked exactly once, before the handler; on_success is not invoked for a
\* request answered by a hook.
C12_OnSuccess ==
    \A r \in Procs : OnSuccessSet =>
        /\ Num(r, 1, "service") = 1 => NumAll(r, "on_success") = 1
        /\ NumAll(r, "handler") = 1 => NumAll(r, "on_success") = 1
        /\ NumAll(r, "on_rate_limit_error") + NumAll(r, "on_store_error") >= 1 =>
              NumAll(r, "on_success") = 0

\* the replies to GET and TTL of request r have been produced
Replied(r) == pc[r] \in {"ttl", "reply"} /\ op[r] = "incr_by"

\* C13: atomicity of the RedisStore. The four commands of one incr_by take
\* effect as one unit with respect to the commands of the other callers: a
\* count that GET returns to a caller is the value of the key right after
\* that caller's own INCRBY.
C13_Atomic ==
    \A r \in Procs : (Replied(r) /\ ret[r].count # Nil) => ret[r].count = pos[r]

(***************************************************************************)
(* MemStore handles (mem_store.rs: #[derive(Clone)] struct MemStore with   *)
(* inner: Arc<Mutex<MemStoreInner>>). SpecClone issues the operations      *)
(* through the original handle and its clones; every operation runs under  *)
(* the lock, so it is one step here. The same operations are applied to    *)
(* the map of a run that uses a single handle (cl.single).                 *)
(***************************************************************************)
\* the original handle and the clones made of it
Handles == {"store", "clone1", "clone2"}

\* MemStoreInner::incr_by on a map at one instant: the map and the value
incr_by_inner(map, k, v, instant) ==
    LET found == or_default(map, k, instant)[k]
        entry == IF expired_at(found, TTL, instant)
                 THEN DateCountDefault(instant) ELSE found
    IN  [data |-> put(map, k, added(entry, v)),
         value |-> DateCountUntil(added(entry, v), TTL)]

\* MemStoreInner::del on a map: the map and the value (NoValue for None)
del_inner(map, k) ==
    [data |-> del_map(map, k),
     value |-> IF k \in DOMAIN map THEN DateCountUntil(map[k], TTL) ELSE NoValue]

\* a clear that leaves the records in the map
clear_inner_keeps(map) == [data |-> map, value |-> NoValue]

\* MemStoreInner::clear on a map
clear_inner(map) == [data |-> EmptyMap, value |-> NoValue]

\* a clone that copies the map into an allocation of its own
clone_deep(c, h, h2) ==
    [c EXCEPT !.arc = put(c.arc, h2, Len(c.heap) + 1),
              !.heap = Append(c.heap, c.heap[c.arc[h]])]

\* the derived Clone of MemStore: Arc::clone, h2 refers to the allocation of h
clone(c, h, h2) == [c EXCEPT !.arc = put(c.arc, h2, c.arc[h])]

\* what SpecClone leaves alone
notCloneVars ==
    <<data, mutex, pc, op, key, val, ret, t0, win, controller, peer, path,
      marker, layer, resp, trace, pos, adv, advAt, adds, rdb, ns, fw, wide>>

Clone(h, h2) ==
    /\ h \in DOMAIN cl.arc
    /\ h2 \notin DOMAIN cl.arc
    /\ cl' = clone(cl, h, h2)
    /\ UNCHANGED <<now, nops>>
    /\ UNCHANGED notCloneVars

\* the operation o issued through handle h gave res; the same operation on
\* the single-handle run gave resSingle
Applied(c, h, o, res, resSingle) ==
    [c EXCEPT !.heap[c.arc[h]] = res.data, !.out = res.value,
              !.single = resSingle.data, !.ref = resSingle.value,
              !.used = @ \cup {h}, !.prev = c.last, !.last = o]

HandleIncrBy(h, k, v) ==
    /\ h \in DOMAIN cl.arc
    /\ nops < MaxOps
    /\ nops' = nops + 1
    /\ cl' = Applied(cl, h, [op |-> "incr_by", key |-> k, val |-> v],
                     incr_by_inner(cl.heap[cl.arc[h]], k, v, now),
                     incr_by_inner(cl.single, k, v, now))
    /\ UNCHANGED now
    /\ UNCHANGED notCloneVars

HandleDel(h, k) ==
    /\ h \in DOMAIN cl.arc
    /\ nops < MaxOps
    /\ nops' = nops + 1
    /\ cl' = Applied(cl, h, [op |-> "del", key |-> k, val |-> 0],
                     del_inner(cl.heap[cl.arc[h]], k),
                     del_inner(cl.single, k))
    /\ UNCHANGED now
    /\ UNCHANGED notCloneVars

HandleClear(h) ==
    /\ h \in DOMAIN cl.arc
    /\ nops < MaxOps
    /\ nops' = nops + 1
    /\ cl' = Applied(cl, h, [op |-> "clear", key |-> "none", val |-> 0],
                     clear_inner(cl.heap[cl.arc[h]]),
                     clear_inner(cl.single))
    /\ UNCHANGED now
    /\ UNCHANGED notCloneVars

NextClone ==
    \/ Tick
    \/ \E h, h2 \in Handles : Clone(h, h2)
    \/ \E h \in Handles, k \in Keys, v \in Amounts : HandleIncrBy(h, k, v)
    \/ \E h \in Handles, k \in Keys : HandleDel(h, k)
    \/ \E h \in Handles : HandleClear(h)

SpecClone == Init /\ [][NextClone]_vars

\* C14: clone aliasing. Every handle refers to a map that equals the map of
\* the single-handle run, and the value an operation returns through any
\* handle is the value the same operation returns in the single-handle run.
C14_CloneAliasing ==
    /\ cl.out = cl.ref
    /\ \A h \in DOMAIN cl.arc : cl.heap[cl.arc[h]] = cl.single

\* C14 witness: the scenario of tests::incr_del with clones: operations were
\* issued through the original and both clones and the last one returned 4
C14_Witness ==
    /\ cl.used = Handles
    /\ cl.out.count = 4
    /\ cl.ref.count = 4

\* the map all handles of SpecClone refer to
StoreMap == cl.heap[cl.arc["store"]]

\* the step issues an operation through a handle
Issued == nops' = nops + 1

\* the value del returns for a record
Some(entry) ==
    [count |-> entry.count, create_date |-> entry.create_date,
     until |-> entry.create_date + TTL]

\* C15: del of the MemStore. del(key) removes the record of the key and
\* returns its count, creation date and creation date + ttl when there is
\* one, and None when there is none; a del right after a del of the same
\* key returns None; the incr_by(key, a) right after a del of the key
\* returns count = a.
C15_Del ==
    [][Issued =>
        /\ cl'.last.op = "del" =>
              /\ cl'.last.key \notin DOMAIN StoreMap'
              /\ cl'.out = IF cl'.last.key \in DOMAIN StoreMap
                           THEN Some(StoreMap[cl'.last.key]) ELSE NoValue
              /\ cl'.prev = cl'.last => cl'.out = NoValue
        /\ (/\ cl'.last.op = "incr_by"
            /\ cl'.prev.op = "del"
            /\ cl'.prev.key = cl'.last.key) =>
              /\ cl'.out.count = cl'.last.val
              /\ cl'.out.create_date = now
    ]_vars

\* C15 witness: as in tests::incr_del, Meg is deleted and the incr_by of 2
\* that follows returns 2 while John keeps his record
C15_Witness ==
    /\ cl.prev = [op |-> "del", key |-> "Meg", val |-> 0]
    /\ cl.last = [op |-> "incr_by", key |-> "Meg", val |-> 2]
    /\ cl.out.count = 2
    /\ "John" \in DOMAIN StoreMap

\* a del has returned the record of a key that had counted 3
C15_WitnessSome ==
    /\ cl.last.op = "del"
    /\ cl.out.count = 3
    /\ cl.out.until = cl.out.create_date + TTL
    /\ cl.last.key \notin DOMAIN StoreMap

\* C16: clear of the MemStore. After clear() the map holds no record, and a
\* clear right after a clear leaves the same empty map; an incr_by(key, a)
\* for a key without record, and so the first one of every key after a
\* clear, returns count = a in a window created at the instant of the call.
C16_Clear ==
    [][Issued =>
        /\ cl'.last.op = "clear" =>
              /\ StoreMap' = EmptyMap
              /\ DOMAIN StoreMap' = {}
              /\ cl.last.op = "clear" => StoreMap' = StoreMap
        /\ (cl'.last.op = "incr_by" /\ cl'.prev.op = "clear") =>
              /\ cl'.out.count = cl'.last.val
              /\ cl'.out.create_date = now
              /\ DOMAIN StoreMap' = {cl'.last.key}
        /\ (cl'.last.op = "incr_by" /\ cl'.last.key \notin DOMAIN StoreMap) =>
              cl'.out.count = cl'.last.val
    ]_vars

\* C16 witness: as in tests::clear, after two increments and a clear the
\* incr_by(Meg, 2) returns 2 and Meg's is the only record
C16_Witness ==
    /\ nops = 4
    /\ cl.prev.op = "clear"
    /\ cl.last = [op |-> "incr_by", key |-> "Meg", val |-> 2]
    /\ cl.out.count = 2
    /\ DOMAIN StoreMap = {"Meg"}

\* two clears in a row
C16_WitnessTwice ==
    /\ cl.prev.op = "clear" /\ cl.last.op = "clear"
    /\ StoreMap = EmptyMap

(***************************************************************************)
(* Several RedisStores on one remote service (redis_store.rs). SpecKeys    *)
(* creates limiters with different prefixes and lets them count logical    *)
(* keys; the clock stands still, so no key expires, and each batch runs    *)
(* alone, so that only the composition of the remote key is at work.       *)
(***************************************************************************)
\* the limiters sharing the remote service
Limiters == {"l1", "l2"}

\* the prefixes the limiters are created with
Prefixes == {"app", "app-user", "api"}

\* the logical keys the limiters count
LogicalKeys == {"7", "user-7", "8"}

\* what SpecKeys leaves alone
notKeysVars ==
    <<now, data, mutex, pc, op, key, val, ret, t0, win, controller, peer,
      path, marker, layer, resp, trace, pos, adv, advAt, adds, cl, fw, wide>>

\* RedisStore::from_client(client, prefix, ttl) with a prefix no other
\* limiter has
FromClient(s, prefix) ==
    /\ s \notin DOMAIN ns.prefix
    /\ \A t \in DOMAIN ns.prefix : ns.prefix[t] # prefix
    /\ ns' = [ns EXCEPT !.prefix = put(@, s, prefix)]
    /\ UNCHANGED <<rdb, nops>>
    /\ UNCHANGED notKeysVars

\* the increments limiter s has made of logical key k
Own(s, k) == IF <<s, k>> \in DOMAIN ns.own THEN ns.own[<<s, k>>] ELSE 0

\* RedisStore::incr(k) of limiter s: SET NX PX, INCRBY, GET on the key
\* get_key composes
SharedIncr(s, k) ==
    /\ s \in DOMAIN ns.prefix
    /\ nops < MaxOps
    /\ nops' = nops + 1
    /\ rdb' = incrby(set_nx_px(rdb, get_key(ns.prefix[s], k),
                               num_milliseconds(TTL), now),
                     get_key(ns.prefix[s], k), 1, now)
    /\ ns' = [ns EXCEPT !.own = put(@, <<s, k>>, Own(s, k) + 1),
                        !.got = put(@, s,
                            [key |-> k,
                             count |-> get_reply(rdb', get_key(ns.prefix[s], k), now)])]
    /\ UNCHANGED notKeysVars

NextKeys ==
    \/ \E s \in Limiters, prefix \in Prefixes : FromClient(s, prefix)
    \/ \E s \in Limiters, k \in LogicalKeys : SharedIncr(s, k)

SpecKeys == Init /\ [][NextKeys]_vars

\* C17: remote keys do not collide. Distinct pairs of prefix and logical key
\* compose distinct remote keys, and so the count a limiter gets for a
\* logical key is the number of increments it has made of that key itself:
\* no limiter with another prefix increments the same remote counter.
C17_NoCollision ==
    /\ \A s, t \in DOMAIN ns.prefix : \A k, j \in LogicalKeys :
          <<ns.prefix[s], k>> # <<ns.prefix[t], j>> =>
              get_key(ns.prefix[s], k) # get_key(ns.prefix[t], j)
    /\ \A s \in DOMAIN ns.got : ns.got[s].count = Own(s, ns.got[s].key)

\* request r was answered by the rate-limit hook
Rejected(r) == pc[r] = "done" /\ NumAll(r, "on_rate_limit_error") = 1

\* C18: the default rejection response. A rejected request gets status 429
\* and the X-Rate-Limited-Until header (resp.until, -1 when absent) holding
\* the expiry the store value carries: with the MemStore the creation of
\* the identifier's current window plus the ttl, in the seconds of the
\* clock, the same for all rejections of one window.
C18_DefaultRejection ==
    \A r \in Procs : Rejected(r) =>
        /\ resp[r].status = 429
        /\ resp[r].until # -1
        /\ resp[r].until = ret[r].until
        /\ resp[r].until = ret[r].create_date + TTL
        /\ key[r] \in DOMAIN win
        /\ resp[r].until = win[key[r]].create_date + TTL
        /\ key[r] \in DOMAIN adv
        /\ resp[r].until = adv[key[r]].until

\* C18 witness: the second rejection of a window carries the expiry the
\* first one carried
C18_Witness ==
    \E r \in Procs :
        /\ Rejected(r)
        /\ adv[key[r]].n = 2
        /\ resp[r] = [status |-> 429, until |-> adv[key[r]].until,
                      by |-> "fn_on_rate_limit_error"]

\* ---------------------------------------------------------------------
\* Concurrent calls at a TTL boundary (MemStoreInner::incr_by under the
\* lock of MemStore::incr_by)
\* ---------------------------------------------------------------------

\* the call of p arrived when the record of its key had already expired
ArrivedLate(p) == Returning(p) /\ t0[p] # -1

\* a call that arrived at or after the expiry has already opened a fresh
\* window for the key of p, and that window is still open
FreshOpened(p) ==
    /\ key[p] \in DOMAIN win
    /\ win[key[p]].create_date >= t0[p]
    /\ now <= win[key[p]].create_date + TTL

C19_WitnessFirst ==
    \E p, q \in Procs :
        /\ ArrivedLate(p) /\ ~SameWindow(p) /\ ret[p].count = val[p]
        /\ key[p] \in DOMAIN win /\ win[key[p]].sum >= 1
        /\ pc[q] = "lock" /\ op[q] = "incr_by" /\ key[q] = key[p]
        /\ t0[q] # -1

\* ---------------------------------------------------------------------
\* Admission under concurrency (RateLimitService::call over MemStore)
\* ---------------------------------------------------------------------

\* min(a, b)
Min(a, b) == IF a < b THEN a ELSE b

\* the number of requests of identifier k counted in k's window so far
Counted(k) == win[k].sum

\* the number of those requests the rate-limit hook answered
RejectedIn(k) == IF k \in DOMAIN adv THEN adv[k].n ELSE 0

\* the number of those requests passed to the wrapped service
ForwardedIn(k) == Counted(k) - RejectedIn(k)

\* request r has been counted in the window of its identifier that is the
\* store's current one, and was passed on
Admitted(r) ==
    /\ pos[r] > 0
    /\ pc[r] \in {"call", "handler"}
    /\ marker[r]
    /\ SameWindow(r)

\* C20: no over-admission under concurrency. In every reachable state, of
\* the K requests of one identifier counted in the identifier's window,
\* min(K, Max) have been passed to the wrapped service and K - min(K, Max)
\* have been rejected, so never more than Max are admitted; a request is
\* passed on if and only if its position in the window is at most Max, and
\* requests in flight together hold different positions.
C20_NoOverAdmission ==
    /\ \A k \in DOMAIN win :
         /\ ForwardedIn(k) = Min(Counted(k), Max)
         /\ RejectedIn(k) = Counted(k) - Min(Counted(k), Max)
         /\ ForwardedIn(k) <= Max
    /\ \A k \in DOMAIN adv :
         k \in DOMAIN win /\ adv[k].until = win[k].create_date + TTL
    /\ \A r \in Procs : pos[r] > 0 =>
         /\ (pc[r] \in {"call", "handler"}) = (pos[r] <= Max)
         /\ (pc[r] = "done") = (pos[r] > Max)
    /\ \A r, q \in Procs :
         (r # q /\ pos[r] > 0 /\ pos[q] > 0 /\ key[r] = key[q]
              /\ SameWindow(r) /\ SameWindow(q)) => pos[r] # pos[q]
    /\ \A k \in Keys \cup Peers :
         Cardinality({r \in Procs : Admitted(r) /\ key[r] = k}) <= Max

\* C20 witness: two requests of one identifier were in flight together in
\* one window with Max = 1; the first is on its way to the handler, the
\* second has been rejected
C20_Witness ==
    \E r, q \in Procs :
        /\ r # q /\ key[r] = key[q] /\ key[r] \in DOMAIN win
        /\ marker[r] /\ pc[r] \in {"call", "handler"}
        /\ pc[q] = "done" /\ pos[q] = 2 /\ SameWindow(q)
        /\ Counted(key[r]) = 2 /\ ForwardedIn(key[r]) = 1
        /\ RejectedIn(key[r]) = 1

\* C20 witness: K = 3 requests in one window, of which min(3, 1) = 1 was
\* forwarded and 2 were rejected
C20_WitnessThree ==
    \E k \in DOMAIN win :
        Counted(k) = 3 /\ ForwardedIn(k) = 1 /\ RejectedIn(k) = 2

(***************************************************************************)
(* Tasks calling RedisStore::incr_by and RedisStore::del directly          *)
(* (redis_store.rs). The commands of a batch are executed one at a time;   *)
(* the commands of another task, and instants of the clock, fall between   *)
(* them.                                                                   *)
(***************************************************************************)
\* the key of the remote service for the caller's key k
RemoteKey(k) == get_key(Prefix, k)

\* DEL key
del_key(db, k, instant) == remove(purged(db, k, instant), k)

\* the integer reply to DEL: the number of keys removed
del_reply(db, k, instant) == IF Live(db, k, instant) THEN 1 ELSE 0

\* the four commands of incr_by executed on db at one instant with nothing
\* between them: the keys after them and the replies to GET and TTL
incr_by_batch(db, k, amount, px, instant) ==
    LET db1 == set_nx_px(purged(db, k, instant), k, px, instant)
        db2 == incrby(db1, k, amount, instant)
    IN  [db |-> db2, count |-> get_reply(db2, k, instant),
         until |-> ttl_reply(db2, k, instant)]

\* a task calls an operation of the RedisStore
RemoteInvoke(p, o, k, v) ==
    /\ pc[p] = "idle"
    /\ NoneDone
    /\ nops < MaxOps
    /\ nops' = nops + 1
    /\ pc' = [pc EXCEPT ![p] = IF o = "del" THEN "dconn" ELSE "conn"]
    /\ op' = [op EXCEPT ![p] = o]
    /\ key' = [key EXCEPT ![p] = k]
    /\ val' = [val EXCEPT ![p] = v]
    /\ ret' = [ret EXCEPT ![p] = NoValue]
    /\ UNCHANGED pipeVars
    /\ UNCHANGED <<now, data, mutex, t0, win, adds, rdb>>
    /\ UNCHANGED <<cl, ns, fw, wide>>

\* the key the tasks count under (the identifier of the example's requests)
RemoteKeys == {"127.0.0.1"}

\* RedisStore::incr_by(key, val)
RemoteIncrBy(p) ==
    \E k \in RemoteKeys, v \in Amounts : RemoteInvoke(p, "incr_by", k, v)

\* RedisStore::del(key)
RemoteDel(p) == \E k \in RemoteKeys : RemoteInvoke(p, "del", k, 0)

\* the operation returns result ("Ok": Ok(value), "None": Ok(None), "Err")
RemoteReturn(p, result) ==
    /\ trace' = [trace EXCEPT ![p] = Ev(0, <<result>>)]
    /\ pc' = [pc EXCEPT ![p] = "done"]
    /\ UNCHANGED <<controller, peer, path, marker, layer, resp, pos, adv,
                   advAt>>
    /\ UNCHANGED <<now, data, mutex, op, key, val, t0, nops, win, adds, rdb>>
    /\ UNCHANGED <<cl, ns, fw, wide>>

\* self.inner.conn().await? fails in incr_by or in del: Err, no command sent
RemoteConnErr(p) ==
    /\ pc[p] \in {"conn", "dconn"}
    /\ NoneDone
    /\ RemoteReturn(p, "Err")
    /\ UNCHANGED ret

\* query_async(..).await? yields (i32, i64): Ok(RateLimitResult)
RemoteReplyOk(p) ==
    /\ pc[p] = "reply"
    /\ NoneDone
    /\ ret[p].count # Nil
    /\ ret' = [ret EXCEPT ![p] = RateLimitResult(ret[p], now)]
    /\ RemoteReturn(p, "Ok")

\* query_async(..).await? fails (transport, or a nil reply to GET): Err
RemoteReplyErr(p) ==
    /\ pc[p] = "reply"
    /\ NoneDone
    /\ RemoteReturn(p, "Err")
    /\ UNCHANGED ret

\* a DEL that leaves the key in place
RemoteDelCmd_keeps(p) ==
    /\ pc[p] = "dconn"
    /\ NoneDone
    /\ rdb' = purged(rdb, RemoteKey(key[p]), now)
    /\ ret' = [ret EXCEPT ![p].count = del_reply(rdb, RemoteKey(key[p]), now)]
    /\ pos' = [pos EXCEPT ![p] =
                 get_reply(rdb, RemoteKey(key[p]), now)]
    /\ pc' = [pc EXCEPT ![p] = "dreply"]
    /\ UNCHANGED <<controller, peer, path, marker, layer, resp, trace, adv,
                   advAt>>
    /\ UNCHANGED <<now, data, mutex, op, key, val, t0, nops, win, adds>>
    /\ UNCHANGED <<cl, ns, fw, wide>>

\* conn.del(redis_key): the connection was made and the service executes DEL
\* (history: pos keeps the value the key held, Nil if it was gone)
RemoteDelCmd(p) ==
    /\ pc[p] = "dconn"
    /\ NoneDone
    /\ rdb' = del_key(rdb, RemoteKey(key[p]), now)
    /\ ret' = [ret EXCEPT ![p].count = del_reply(rdb, RemoteKey(key[p]), now)]
    /\ pos' = [pos EXCEPT ![p] =
                 get_reply(rdb, RemoteKey(key[p]), now)]
    /\ pc' = [pc EXCEPT ![p] = "dreply"]
    /\ UNCHANGED <<controller, peer, path, marker, layer, resp, trace, adv,
                   advAt>>
    /\ UNCHANGED <<now, data, mutex, op, key, val, t0, nops, win, adds>>
    /\ UNCHANGED <<cl, ns, fw, wide>>

\* conn.del(..).await? yields the reply, which is dropped: Ok(None)
RemoteDelOk(p) ==
    /\ pc[p] = "dreply"
    /\ NoneDone
    /\ RemoteReturn(p, "None")
    /\ UNCHANGED ret

\* conn.del(..).await? fails after the command was sent: Err
RemoteDelErr(p) ==
    /\ pc[p] = "dreply"
    /\ NoneDone
    /\ RemoteReturn(p, "Err")
    /\ UNCHANGED ret

NextRemote ==
    \/ Tick
    \/ \E p \in Procs : RemoteIncrBy(p)
    \/ \E p \in Procs : RemoteDel(p)
    \/ \E p \in Procs : RemoteConnErr(p)
    \/ \E p \in Procs : RedisSet(p)
    \/ \E p \in Procs : RedisIncrBy(p)
    \/ \E p \in Procs : RedisGet(p)
    \/ \E p \in Procs : RedisTtl(p)
    \/ \E p \in Procs : RemoteReplyOk(p)
    \/ \E p \in Procs : RemoteReplyErr(p)
    \/ \E p \in Procs : RemoteDelCmd(p)
    \/ \E p \in Procs : RemoteDelOk(p)
    \/ \E p \in Procs : RemoteDelErr(p)
    \/ \E p \in Procs : Leave(p)

SpecRemote == Init /\ [][NextRemote]_vars

\* C21: remote counters always expire. Every key the remote service holds
\* has an expiry, and the expiry is at most the configured ttl away.
C21_AlwaysExpires ==
    \A k \in DOMAIN rdb : Live(rdb, k, now) =>
        /\ rdb[k].exp # -1
        /\ rdb[k].exp <= num_milliseconds(now) + num_milliseconds(TTL)

\* the step leaves remote key k, alive before it, in place
Kept(k) == Live(rdb, k, now) /\ k \in DOMAIN rdb'

\* the step brings remote key k into being
Created(k) ==
    /\ k \in DOMAIN rdb'
    /\ ~Live(rdb, k, now)
    /\ k \notin DOMAIN rdb \/ rdb'[k] # rdb[k]

\* an incr_by whose commands run next, with nothing between them, on a key
\* that is gone returns its amount and the full ttl
FirstAfterExpiry ==
    \A k \in RemoteKeys, a \in Amounts :
        ~Live(rdb, RemoteKey(k), now) =>
            LET b == incr_by_batch(rdb, RemoteKey(k), a,
                                   num_milliseconds(TTL), now)
            IN  b.count = a /\ b.until = TTL

\* C22, first part: no command resets the value of a key that exists to 0,
\* nor moves its expiry
C22_NoResetNoExtend ==
    [][\A k \in DOMAIN rdb' : Kept(k) =>
          /\ rdb'[k].exp = rdb[k].exp
          /\ rdb'[k].value >= rdb[k].value
          /\ rdb'[k].value > 0 \/ rdb[k].value = 0]_vars

\* C22: the remote window is fixed. No command resets the value of a key
\* that exists or moves its expiry, every key expires one ttl after the
\* command that created it, and the first incr_by after the expiry returns
\* its amount.
C22_FixedWindow ==
    [][/\ \A k \in DOMAIN rdb' : Kept(k) =>
            /\ rdb'[k].exp = rdb[k].exp
            /\ rdb'[k].value >= rdb[k].value
       /\ \A k \in DOMAIN rdb' : Created(k) =>
            rdb'[k].exp = num_milliseconds(now) + num_milliseconds(TTL)
       /\ FirstAfterExpiry]_vars

\* the DEL of task p is executed in this step
Deletes(p) == pc[p] = "dconn" /\ pc'[p] = "dreply"

C29_WitnessErr ==
    \E p \in Procs :
        /\ pc[p] = "done" /\ op[p] = "del"
        /\ trace[p] = Ev(0, <<"Err">>) /\ ret[p].count = 0
        /\ Live(rdb, RemoteKey(key[p]), now)

\* ---------------------------------------------------------------------
\* The dates of the snapshots (DateCountUntil built by MemStoreInner::incr_by)
\* ---------------------------------------------------------------------

\* the window the earlier calls on p's key returned from is still open
WindowOpen(p) ==
    key[p] \in DOMAIN win /\ now <= win[key[p]].create_date + TTL

\* C23: window dates are stable. Every snapshot returned by incr_by has
\* expire date = creation date + ttl and carries the dates of the stored
\* record; an increment that returns while the key's window is open reports
\* the creation date and the expire date of the increments before it, and an
\* increment reports other dates than the one before it only if it reset
\* the record: it then returns its own amount and a creation date later
\* than the old expire date.
C23_StableDates ==
    \A p \in Procs : Returning(p) =>
        /\ ret[p].until = ret[p].create_date + TTL
        /\ ret[p].create_date = data[key[p]].create_date
        /\ ret[p].create_date <= now
        /\ WindowOpen(p) =>
             /\ ret[p].create_date = win[key[p]].create_date
             /\ ret[p].until = win[key[p]].create_date + TTL
        /\ (key[p] \in DOMAIN win /\ ~SameWindow(p)) =>
             /\ ret[p].count = val[p]
             /\ ret[p].create_date > win[key[p]].create_date + TTL

\* C23 witness: the third increment of a window returns, one instant after
\* the first, with the dates of the first
C23_Witness ==
    \E p \in Procs :
        /\ Returning(p) /\ SameWindow(p)
        /\ win[key[p]].sum >= 2 /\ win[key[p]].last >= 2
        /\ now = win[key[p]].create_date + TTL /\ now > 0
        /\ ret[p].until = now

\* C23 witness: an increment that reset the expired record reports new dates
C23_WitnessReset ==
    \E p \in Procs :
        /\ Returning(p) /\ key[p] \in DOMAIN win /\ ~SameWindow(p)
        /\ ret[p].create_date = win[key[p]].create_date + TTL + 1
        /\ ret[p].until = ret[p].create_date + TTL

\* ---------------------------------------------------------------------
\* The expiry boundary (DateCount::expired_at in MemStoreInner::incr_by)
\* ---------------------------------------------------------------------

\* task p evaluates entry.expired(self.ttl) in this step
Checks(p) == pc[p] = "expired" /\ pc'[p] # "expired"

\* the record p looks at was default-inserted by p's own call: or_default
\* found no record, and nothing has been added yet
JustInserted(p) == data[key[p]].count = 0

\* the boundary itself: a record is reset if and only if creation + ttl is
\* strictly before the instant of the check; a check at creation + ttl
\* leaves it, and the increment then adds to the count that is there
StrictBoundary(p) ==
    /\ Checks(p) =>
         /\ (pc'[p] = "reset") = (data[key[p]].create_date + TTL < now)
         /\ (pc'[p] = "add") = (now <= data[key[p]].create_date + TTL)
         /\ now = data[key[p]].create_date + TTL =>
              pc'[p] = "add" /\ data' = data
    /\ (pc[p] = "add" /\ pc'[p] = "unlock") =>
         /\ ret'[p].count = data[key[p]].count + val[p]
         /\ ret'[p].create_date = data[key[p]].create_date
    /\ (Returning(p) /\ key[p] \in DOMAIN win
            /\ now = win[key[p]].create_date + TTL) =>
         /\ ret[p].count = win[key[p]].last + val[p]
         /\ ret[p].create_date = win[key[p]].create_date

\* C24 as stated: the boundary is strict, and a record default-inserted by
\* the same call is never treated as expired
C24_Original ==
    [][\A p \in Procs :
        /\ StrictBoundary(p)
        /\ (Checks(p) /\ JustInserted(p)) => pc'[p] # "reset"]_vars

\* C24: the expiry boundary is strict. A record is expired only when
\* creation + ttl < now: an increment at exactly creation + ttl continues
\* the window (count = previous + amount) and only a strictly later one
\* resets it. A record default-inserted by the same call is treated as
\* expired only when the clock has advanced by more than the ttl between
\* the insertion and the check; the reset then replaces a count of 0 by a
\* count of 0 with a later creation instant, and the call returns its
\* amount in either case.
C24_StrictBoundary ==
    [][\A p \in Procs :
        /\ StrictBoundary(p)
        /\ (Checks(p) /\ JustInserted(p) /\ pc'[p] = "reset") =>
             now > data[key[p]].create_date + TTL
        /\ (pc[p] = "reset" /\ pc'[p] = "add") =>
             /\ data'[key[p]].count = 0
             /\ data'[key[p]].create_date = now
        /\ (pc[p] = "add" /\ pc'[p] = "unlock" /\ JustInserted(p)) =>
             ret'[p].count = val[p]]_vars

\* C24 witness: an increment checked at exactly creation + ttl is about to
\* add to the count 2 of the window, one instant after the window began
C24_Witness ==
    \E p \in Procs :
        /\ pc[p] = "add" /\ key[p] \in DOMAIN win
        /\ data[key[p]].count = 2
        /\ data[key[p]].create_date = win[key[p]].create_date
        /\ now = data[key[p]].create_date + TTL

\* C24 witness: the record the call inserted itself is found expired
C24_WitnessInserted ==
    \E p \in Procs :
        /\ pc[p] = "reset" /\ JustInserted(p)
        /\ key[p] \notin DOMAIN win
        /\ now > data[key[p]].create_date + TTL

(***************************************************************************)
(* Bursts across adjacent windows: the middleware over the MemStore with   *)
(* the default controller and the requests of one peer, the clock running  *)
(* long enough for three windows, and the history fw of the instants at    *)
(* which the increments of the forwarded requests returned.                *)
(***************************************************************************)
\* the least range of the clock that holds the creation of three windows
BurstTime == 2 * (TTL + 1)

BurstTick ==
    /\ NoneDone
    /\ now < BurstTime
    /\ now' = now + 1
    /\ UNCHANGED pipeVars
    /\ UNCHANGED <<data, mutex, pc, op, key, val, ret, t0, nops, win>>
    /\ UNCHANGED <<adds, rdb>>
    /\ UNCHANGED <<cl, ns, fw, wide>>

\* the requests come from one peer and no hook looks at the path
BurstArrive(r) == Arrival(r, {"127.0.0.1"}, {"/"}) /\ UNCHANGED fw

\* store.incr returns; a request that is passed on is entered in fw
BurstIncrReturn(r) ==
    /\ IncrReturned(r)
    /\ fw' = IF pc'[r] = "done" THEN fw ELSE Append(fw, now)

InitBurst ==
    /\ InitStore
    /\ InitPipe
    /\ controller = ControllerDefault

NextBurst ==
    \/ BurstTick
    \/ \E r \in Procs : BurstArrive(r)
    \/ \E r \in Procs : MemCall(r)
    \/ \E r \in Procs : Lock(r)
    \/ \E r \in Procs : Entry(r)
    \/ \E r \in Procs : Expired(r)
    \/ \E r \in Procs : Reset(r)
    \/ \E r \in Procs : Add(r)
    \/ \E r \in Procs : BurstIncrReturn(r)
    \/ \E r \in Procs : Handler(r)
    \/ \E r \in Procs : Leave(r)

SpecBurst == InitBurst /\ [][NextBurst]_vars

\* the forwards from the i-th on that fall within one ttl of the i-th
InInterval(i) == {j \in i..Len(fw) : fw[j] - fw[i] <= TTL}

Half == 65536

\* the amounts the callers pass: 1, 2, 2^16 - 1, 2^16, 2^31, u32::MAX
WideAmounts ==
    {U32(0, 1), U32(0, 2), U32(0, Half - 1), U32(1, 0), U32(Half \div 2, 0),
     U32(Half - 1, Half - 1)}

\* a + b does not fit in a u32
overflows(a, b) == a.hi + b.hi + (a.lo + b.lo) \div Half >= Half

\* a + b modulo 2^32: what += yields without overflow checks
wrapping_add(a, b) ==
    U32((a.hi + b.hi + (a.lo + b.lo) \div Half) % Half, (a.lo + b.lo) % Half)

\* a <= b on u32
Le32(a, b) == a.hi < b.hi \/ (a.hi = b.hi /\ a.lo <= b.lo)

notWideVars ==
    <<now, data, mutex, pc, op, key, val, ret, t0, win, controller, peer,
      path, marker, layer, resp, trace, pos, adv, advAt, adds, rdb, cl, ns,
      fw>>

\* incr_by(key, v) in the window: the addition fits, or it wraps
WideIncrBy(v) ==
    /\ nops < MaxOps
    /\ ~wide.panicked
    /\ nops' = nops + 1
    /\ wide' = [wide EXCEPT !.count = wrapping_add(@, v),
                            !.prev = wide.last,
                            !.last = wrapping_add(wide.count, v),
                            !.n = IF @ < 2 THEN @ + 1 ELSE @]
    /\ UNCHANGED notWideVars

\* incr_by(key, v) in the window with overflow checks: the addition panics,
\* the guard is dropped while unwinding and the record is as it was
WidePanic(v) ==
    /\ nops < MaxOps
    /\ ~wide.panicked
    /\ overflows(wide.count, v)
    /\ nops' = nops + 1
    /\ wide' = [wide EXCEPT !.panicked = TRUE]
    /\ UNCHANGED notWideVars

NextWide ==
    \/ \E v \in WideAmounts : WideIncrBy(v)
    \/ \E v \in WideAmounts : WidePanic(v)

SpecWide == Init /\ [][NextWide]_vars

\* C26: no decrease at the counter's numeric limit. Inside one window the
\* count incr_by reports is never smaller than the count reported before
\* it, also when previous count + amount exceeds u32::MAX.
C26_NoDecrease == wide.n = 2 => Le32(wide.prev, wide.last)

\* ---------------------------------------------------------------------
\* The bypass marker (RateLimitByPass::check before service.call)
\* ---------------------------------------------------------------------

\* pass l of request r passed the request on without counting it
Skipped(r, l) == Num(r, l, "service") = 1 /\ Num(r, l, "incr") = 0

C27_WitnessNoIdentifier ==
    \E r \in Procs :
        /\ pc[r] = "call" /\ layer[r] = 2 /\ marker[r]
        /\ controller = ControllerNew /\ Skipped(r, 1)

\* C27 witness: a rejected request carries no marker
C27_WitnessRejected ==
    \E r \in Procs :
        /\ pc[r] = "done" /\ resp[r].status = 429 /\ ~marker[r]
        /\ Num(r, 1, "incr") = 1

\* ---------------------------------------------------------------------
\* The order of the steps of one pass (RateLimitService::call)
\* ---------------------------------------------------------------------

\* the complete passes the code of call can make, as the steps they record
PassOrders ==
    {<<"checked", "check", "service">>,
     <<"not_checked", "do_rate_limit", "check", "service">>,
     <<"not_checked", "do_rate_limit", "find_identifier", "incr", "Ok",
       "check", "service">>,
     <<"not_checked", "do_rate_limit", "find_identifier", "incr", "Ok",
       "on_rate_limit_error">>,
     <<"not_checked", "do_rate_limit", "find_identifier", "incr", "Err",
       "on_store_error">>}

\* s is an initial part of t
IsPrefix(s, t) == Len(s) <= Len(t) /\ SubSeq(t, 1, Len(s)) = s

\* what the should_rate_limit hook of the controller returns for request r
should_rate_limit(r) ==
    IF controller.fn_do_rate_limit = "test"
    THEN test_do_rate_limit(path[r]) ELSE default_do_rate_limit(path[r])

\* C28: hook evaluation order. The steps of a pass occur only in the order
\* marker check, should_rate_limit, find_identifier, store.incr, threshold
\* comparison, then a hook's response or the forward; find_identifier only
\* after should_rate_limit returned true, store.incr only with an
\* identifier, on_rate_limit_error only after an increment that returned
\* Ok with count > Max, on_store_error only after one that returned Err,
\* and every hook at most once in a pass.
C28_Order ==
    \A r \in Procs : \A l \in 1..Layers :
        /\ \E o \in PassOrders : IsPrefix(Pass(r, l), o)
        /\ Finished(r, l) => Pass(r, l) \in PassOrders
        /\ Num(r, l, "find_identifier") = 1 =>
             should_rate_limit(r) /\ identifier(r) # <<>>
        /\ Num(r, l, "incr") = 1 =>
             /\ identifier(r) # <<>>
             /\ key[r] = identifier(r)[1]
        /\ Num(r, l, "on_rate_limit_error") = 1 =>
             /\ Num(r, l, "Ok") = 1
             /\ ret[r].count > Max
             /\ adds[r] = 1
        /\ (Num(r, l, "Ok") = 1 /\ Num(r, l, "service") = 1
                /\ layer[r] = l) => ret[r].count <= Max
        /\ Num(r, l, "on_store_error") = 1 =>
             Num(r, l, "Err") = 1 /\ resp[r].status = 500
        /\ \A e \in {"do_rate_limit", "find_identifier", "incr",
                     "on_rate_limit_error", "on_store_error"} :
             Num(r, l, e) <= 1

\* C28 witness: a pass that ends in the rate-limit hook, with all of its
\* steps in order
C28_Witness ==
    \E r \in Procs :
        /\ pc[r] = "done" /\ ret[r].count = Max + 1
        /\ Pass(r, 1) = <<"not_checked", "do_rate_limit", "find_identifier",
                          "incr", "Ok", "on_rate_limit_error">>

\* C28 witness: a pass that ends in the store-error hook after the commands
\* of the increment were executed
C28_WitnessStoreError ==
    \E r \in Procs :
        /\ pc[r] = "done" /\ adds[r] = 1
        /\ Pass(r, 1) = <<"not_checked", "do_rate_limit", "find_identifier",
                          "incr", "Err", "on_store_error">>


(***************************************************************************)
(* Termination.  One application whose limiter is built as the examples   *)
(* build it: the default controller over the MemStore, or the controller  *)
(* of examples/redis-middleware.rs over the RedisStore.  Besides the      *)
(* requests, tasks call del and clear on the MemStore directly, so that   *)
(* incr, del and clear contend for the lock.                               *)
(***************************************************************************)
LivePeers == {"127.0.0.1"}

OverRedis == controller = ControllerExample

LiveArrive(r) == Arrival(r, LivePeers, {"/"})

LiveCall(r) == IF OverRedis THEN RedisCall(r) ELSE MemCall(r)

LiveDel(p) == \E k \in LivePeers : Invoke(p, "del", k, 0)

LiveClear(p) == CallClear(p)

LiveIncrReturn(r) == op[r] = "incr_by" /\ MemIncrReturn(r)

LiveUnlock(p) == op[p] # "incr_by" /\ Unlock(p)

InitLive ==
    /\ InitStore
    /\ InitPipe
    /\ controller \in {ControllerDefault, ControllerExample}

\* Every step a task takes by itself once it has been started.  Lock is
\* not among them: it waits for the owner of the mutex.
Step(p) ==
    \/ LiveCall(p)
    \/ Entry(p)
    \/ Expired(p)
    \/ Reset(p)
    \/ Add(p)
    \/ Del(p)
    \/ Clear(p)
    \/ LiveIncrReturn(p)
    \/ LiveUnlock(p)
    \/ RedisConnErr(p)
    \/ RedisSet(p)
    \/ RedisIncrBy(p)
    \/ RedisGet(p)
    \/ RedisTtl(p)
    \/ RedisReplyOk(p)
    \/ RedisReplyErr(p)
    \/ Handler(p)
    \/ Leave(p)

NextLive ==
    \/ Tick
    \/ \E r \in Procs : LiveArrive(r)
    \/ \E p \in Procs : LiveDel(p)
    \/ \E p \in Procs : LiveClear(p)
    \/ \E p \in Procs : Lock(p)
    \/ \E p \in Procs : Step(p)

\* The executor polls every ready task (weak fairness of its steps); the
\* tokio Mutex queues its waiters first-in first-out, so a waiter that finds
\* the lock free again and again is served (strong fairness of Lock).
Fairness == \A p \in Procs : WF_vars(Step(p)) /\ SF_vars(Lock(p))

SpecLive == InitLive /\ [][NextLive]_vars /\ Fairness

Terminal(r) == pc[r] = "done" /\ resp[r].status \in {204, 429, 500}

InPipeline(r) == peer[r] # "none" /\ pc[r] # "done"

Waiting(p) == pc[p] = "lock"

\* C30: under fair scheduling every request that entered the pipeline
\* reaches a terminal outcome (the handler's response, the rate-limit
\* response or the store-error response), every task waiting for the
\* MemStore lock obtains it, and every owner of the lock gives it back.
C30_Terminates ==
    \A p \in Procs :
        /\ InPipeline(p) ~> Terminal(p)
        /\ Waiting(p) ~> mutex = p
        /\ mutex = p ~> mutex # p

\* A request waits for the lock while a direct clear call owns it.
C30_Witness ==
    \E r, p \in Procs :
        /\ InPipeline(r) /\ Waiting(r) /\ op[r] = "incr_by"
        /\ mutex = p /\ pc[p] = "clear"

\* A request ended with the store-error response.
C30_WitnessStoreError ==
    \E r \in Procs : Terminal(r) /\ resp[r].status = 500

\* A request ended with the rate-limit response.
C30_WitnessRejected ==
    \E r \in Procs : Terminal(r) /\ resp[r].status = 429

=============================================================================
